---- MODULE Spec2Model ----
(***************************************************************************)
(* Backup lifecycle controller of docker-volumes-backup-restore:          *)
(*   - the retention engine  (src/src/backup.rs, filter_backups_to_delete) *)
(*   - the backup cycle      (src/src/backup.rs and the earlier            *)
(*                            src/src/backup/backup.rs, run_backup)        *)
(*   - restore               (src/src/restore.rs, restore_volumes)         *)
(*   - the scheduler         (src/src/backup.rs,                           *)
(*                            configure_cron_scheduled_backup)             *)
(* Each part has its own specification over the shared variables.          *)
(***************************************************************************)
EXTENDS Integers, Sequences, FiniteSets, TLC

VARIABLES
    \* ---- retention engine (filter_backups_to_delete) ----
    backups,          \* Vec<String>: the artifact names handed to the engine
    retention,        \* RetentionPolicy {count, period}
    utc_now,          \* Utc::now() read by the engine
    to_delete,        \* the returned Vec<String>
    to_delete_again,  \* what a second call with the same arguments returned
    delete_calls,     \* history: the names delete_file was called for by the last prune
    fpc,              \* "input" before the call, "selected" after it, "panicked"
                      \* if it unwound; "later" once the clock has moved on,
                      \* "selected_again" after the second call
    \* ---- backup cycle (run_backup) ----
    impl,             \* which run_backup runs: "current" (src/backup.rs) or
                      \* "legacy" (src/backup/backup.rs); restore.rs calls
                      \* crate::backup::run_backup, which names the first by
                      \* its path and the second by its six arguments
    mode,             \* entry point of the process: "backup" or "restore"
    pc,               \* position of the process
    cycle_ret,        \* what run_backup returned: "none", "Ok" or "Err_<kind>"
    volume_names,     \* get_volume_dirs(): the discovered volumes, in listing order
    vi,               \* 1-based index of the volume of the for loop
    result,           \* compress_folder_to_tar's result for that volume
    combined_name,    \* combined_backup_name
    \* ---- docker (stop_containers / start_containers) ----
    running,          \* the containers that are running
    sc_caller,        \* who called stop/start_containers: "backup" or "restore"
    ps,               \* the ids of `docker ps` not yet visited by stop_containers
    container_ids,    \* the ids pushed by stop_containers / held by its caller
    to_start,         \* the ids start_containers has not yet visited
    exit_fails,       \* docker commands that ran and exited non-zero so far
    calls,            \* history: returns of stop_containers, calls of
                      \* start_containers, snapshot results, in order
    \* ---- environment ----
    remote,           \* names of the objects in the server directory
    temp_exists,      \* does temp_path exist
    temp,             \* files under temp_path
    clock,            \* wall clock (UTC), in ticks
    tz,               \* offset of local time from UTC, in ticks
    \* ---- restore (restore_volumes) ----
    artifact_selector, \* backup_to_be_restored: "latest" or a name
    ls_output,        \* the lines `ls -t <dir>/backup-*.tar.gz` printed, directory stripped
    volume_selector,  \* volumes_to_be_restored: "all" or a list of volumes
    bundle,           \* the per-volume archives inside the artifacts, as the
                      \* extracted directory lists them
    backup_file_name, \* the resolved artifact name
    restore_names,    \* volume_names of restore_volumes: the selected volumes
    ri,               \* 1-based index of the volume of its for loop
    data,             \* per volume, the content of its mount /backup/<volume>
    mount_exists,     \* per volume, does /backup/<volume> exist
    restore_ret,      \* what restore_volumes returned
    \* ---- scheduler (configure_cron_scheduled_backup) ----
    cron_every,       \* the schedule: every cron_every seconds, 0 for none
    last,             \* Option: the trigger instant fired last
    loop_now,         \* `now`: Local::now() read at the top of the loop
    next_time,        \* the trigger instant being served
    sleep_until,      \* earliest instant at which the sleep ends
    fired,            \* history: the trigger instants run_backup was invoked for
    invoked_at,       \* history: the clock at each of those invocations
    skipped,          \* history: has an iteration been skipped by the guard
    outcomes,         \* history: what each invoked cycle returned
    returned_at,      \* history: the clock at each of those returns
    uploaded,         \* history: the artifact names the invoked cycles uploaded
    sched_ret         \* what the scheduler returned: "none" or the error

retVars == <<backups, retention, utc_now, to_delete, to_delete_again, delete_calls, fpc>>
cycVars_but_pc == <<impl, mode, cycle_ret, volume_names, vi, result, combined_name>>
cycVars == <<pc, cycVars_but_pc>>
dockVars == <<running, sc_caller, ps, container_ids, to_start, exit_fails, calls>>
envVars == <<remote, temp_exists, temp, clock, tz>>
resData == <<artifact_selector, ls_output, volume_selector, bundle, backup_file_name,
             restore_names, ri, data, mount_exists>>
resVars == <<resData, restore_ret>>

schVars == <<cron_every, last, loop_now, next_time, sleep_until, fired, invoked_at,
             skipped, outcomes, returned_at, uploaded, sched_ret>>

vars == <<retVars, cycVars, dockVars, envVars, resVars, schVars>>

-----------------------------------------------------------------------------
(* Bounds of the model.                                                    *)

\* usize and i64 are modelled WordBits wide (64 in the build; TLC integers
\* are 32-bit, so the word is scaled down and every cast keeps its
\* two's-complement meaning at that width).
WordBits == 16
\* ticks of the clock per day (the period of the policy is in days)
TicksPerDay == 1
\* artifact timestamps range over 0..MaxStamp ticks
MaxStamp == 3
\* longest artifact list handed to the engine
MaxLen == 4
\* largest finite retention count / period tried
MaxCount == 3
MaxPeriod == 2
\* the wall clock of a cycle runs from ClockStart up to MaxClock ticks
MaxClock == 3
\* docker commands that may exit non-zero in one run
MaxExitFail == 1
\* the scheduler's clock has TicksPerSec ticks a second and runs up to
\* MaxSchedClock ticks; it invokes at most MaxFired cycles
TicksPerSec == 2
MaxSchedClock == 6
MaxFired == 3

-----------------------------------------------------------------------------
(* Option<T> is a sequence of length at most one.                          *)
None == <<>>
Some(x) == <<x>>
IsSome(o) == o # <<>>
Unwrap(o) == o[1]

Pow2(n) == 2 ^ n
\* usize::MAX
UsizeMax == Pow2(WordBits) - 1
\* `x as i64` for x: usize, on a target where both are one word wide
AsI64(x) == IF x >= Pow2(WordBits - 1) THEN x - Pow2(WordBits) ELSE x

-----------------------------------------------------------------------------
(* Artifact names.  A name is modelled by what the code reads of it: does *)
(* it start with "backup-", does it end with ".tar.gz", and does the text *)
(* between them parse as %Y-%m-%dT%H-%M-%S (stamp = <<ticks>>) or not    *)
(* (stamp = <<>>).  chrono's numeric fields accept unpadded digits, so two     *)
(* different names can parse to the same instant: alt tells them apart.   *)
DatedName(s, a) == [pre |-> TRUE, suf |-> TRUE, stamp |-> <<s>>, alt |-> a]
JunkName == [pre |-> TRUE, suf |-> TRUE, stamp |-> <<>>, alt |-> 0]

\* NaiveDateTime::parse_from_str(datetime_str, "%Y-%m-%dT%H-%M-%S").ok()
parse_from_str(b) == IF b.stamp = <<>> THEN None ELSE Some(b.stamp[1])

\* parse_backup_date: Some(instant, read as UTC) or None
parse_backup_date(b) ==
    IF ~b.pre \/ ~b.suf THEN None
    ELSE IF IsSome(parse_from_str(b)) THEN parse_from_str(b)
    ELSE None

\* Duration::days(retention.period as i64)
retention_period(r) == AsI64(r.period) * TicksPerDay

\* a variant that keeps an artifact dated exactly at the cutoff
WithinPeriod_Inclusive(date, now, r) == date >= now - retention_period(r)

\* backups_with_dates.retain(|(_, date)| date > &(now - retention_period))
WithinPeriod(date, now, r) == date > now - retention_period(r)

\* filter_map(parse_backup_date) then retain: pairs <<name, date>>
RECURSIVE ParseAndFilter(_, _, _)
ParseAndFilter(bs, now, r) ==
    IF bs = <<>> THEN <<>>
    ELSE LET b == Head(bs)
             d == parse_backup_date(b)
             rest == ParseAndFilter(Tail(bs), now, r)
         IN IF IsSome(d) /\ WithinPeriod(Unwrap(d), now, r)
            THEN <<<<b, Unwrap(d)>>>> \o rest
            ELSE rest

\* sort_by(|a, b| b.1.cmp(&a.1)): stable, newest first
RECURSIVE InsertDesc(_, _)
InsertDesc(sorted, x) ==
    IF sorted = <<>> THEN <<x>>
    ELSE IF Head(sorted)[2] >= x[2]
         THEN <<Head(sorted)>> \o InsertDesc(Tail(sorted), x)
         ELSE <<x>> \o sorted

RECURSIVE SortNewestFirst(_, _)
SortNewestFirst(acc, s) ==
    IF s = <<>> THEN acc
    ELSE SortNewestFirst(InsertDesc(acc, Head(s)), Tail(s))

\* (len as f64 / slots as f64).ceil() as usize, slots > 0
keep_interval(len, slots) == (len + slots - 1) \div slots

\* the for loop of one pass: i is the 0-based index of Head(rest)
RECURSIVE ScanPass(_, _, _, _, _)
ScanPass(rest, i, last_keep_index, interval, kept) ==
    IF rest = <<>> THEN kept
    ELSE IF i = 0 \/ (i - last_keep_index) >= interval
         THEN ScanPass(Tail(rest), i + 1, i, interval, kept \cup {Head(rest)[1]})
         ELSE ScanPass(Tail(rest), i + 1, last_keep_index, interval, kept)

RemoveRetained(pool, retained) ==
    SelectSeq(pool, LAMBDA e : e[1] \notin retained)

\* while retained_backups.len() < retention.count { ... }
RECURSIVE RetainLoop(_, _, _)
RetainLoop(pool, retained, count) ==
    IF ~(Cardinality(retained) < count) THEN retained
    ELSE LET interval == keep_interval(Len(pool), count - Cardinality(retained))
             retained2 == ScanPass(pool, 0, 0, interval, retained)
             pool2 == RemoveRetained(pool, retained2)
         IN IF pool2 = <<>> THEN retained2
            ELSE RetainLoop(pool2, retained2, count)

\* Duration::days(retention.period as i64) panics when the day count leaves
\* the span of a Duration (about 2^36 days, against a word of 2^64), and
\* `now - retention_period`, evaluated for each parsed artifact, when it
\* leaves the span of dates (about 2^26 days).  Both spans are taken at the
\* width of the model.
DurationSpanDays == Pow2(WordBits - 6)
DateSpanDays == Pow2(WordBits - 8)
Exceeds(days, span) == days > span \/ days < 0 - span
DaysOutOfRange(bs, r) ==
    \/ Exceeds(AsI64(r.period), DurationSpanDays)
    \/ /\ Exceeds(AsI64(r.period), DateSpanDays)
       /\ \E i \in DOMAIN bs : IsSome(parse_backup_date(bs[i]))

\* the survivor pool the loop starts from, and the set it retains
SurvivorPool(bs, now, r) == SortNewestFirst(<<>>, ParseAndFilter(bs, now, r))
retained_backups(bs, now, r) == RetainLoop(SurvivorPool(bs, now, r), {}, r.count)

\* a variant that retains the newest survivor whatever the count
filter_backups_to_delete_KeepsNewest(bs, now, r) ==
    LET pool == SurvivorPool(bs, now, r)
        kept == retained_backups(bs, now, r)
                    \cup (IF pool = <<>> THEN {} ELSE {Head(pool)[1]})
    IN SelectSeq(bs, LAMBDA b : b \notin kept)

\* a variant that leaves names it cannot parse alone
filter_backups_to_delete_SkipsUnparsed(bs, now, r) ==
    LET kept == retained_backups(bs, now, r)
    IN SelectSeq(bs, LAMBDA b : b \notin kept /\ IsSome(parse_backup_date(b)))

\* backups.into_iter().filter(|b| !retained_backups.contains(b)).collect()
filter_backups_to_delete(bs, now, r) ==
    LET kept == retained_backups(bs, now, r)
    IN SelectSeq(bs, LAMBDA b : b \notin kept)

-----------------------------------------------------------------------------
(* The retention engine applied to bounded inputs.                         *)

Stamps == 0 .. MaxStamp
\* zero-padded names for every stamp, one unpadded twin, one unparseable name
Names == {DatedName(s, 0) : s \in Stamps} \cup {DatedName(MaxStamp, 1), JunkName}
Counts == (0 .. MaxCount) \cup {UsizeMax}
Periods == (0 .. MaxPeriod) \cup {UsizeMax, Pow2(WordBits - 7), Pow2(WordBits - 2)}
Nows == {MaxStamp - 1, MaxStamp}

IsInjective(s) == \A i, j \in DOMAIN s : s[i] = s[j] => i = j
NameLists == {s \in UNION {[1 .. n -> Names] : n \in 0 .. MaxLen} : IsInjective(s)}

\* RetentionPolicy::new_from_env with both variables unset; new_no_delete
DefaultPolicy == [count |-> UsizeMax, period |-> UsizeMax]

\* the variables of the other parts, at rest
IdleCycle ==
    /\ impl = "current" /\ mode = "none" /\ pc = "idle" /\ cycle_ret = "none"
    /\ volume_names = <<>> /\ vi = 0 /\ result = "none" /\ combined_name = None
    /\ running = {} /\ sc_caller = "none" /\ ps = <<>> /\ container_ids = <<>>
    /\ to_start = <<>> /\ exit_fails = 0 /\ calls = <<>>
    /\ remote = {} /\ temp_exists = FALSE /\ temp = {} /\ clock = 0 /\ tz = 0

IdleRestore ==
    /\ artifact_selector = "none" /\ ls_output = <<>> /\ volume_selector = "none" /\ bundle = <<>>
    /\ backup_file_name = None
    /\ restore_names = <<>> /\ ri = 0 /\ restore_ret = "none"
    /\ data = <<>> /\ mount_exists = <<>>

IdleScheduler ==
    /\ cron_every = 0 /\ last = None /\ loop_now = 0 /\ next_time = 0 /\ sleep_until = 0
    /\ fired = <<>> /\ invoked_at = <<>> /\ skipped = FALSE /\ sched_ret = "none"
    /\ outcomes = <<>> /\ returned_at = <<>> /\ uploaded = <<>>

\* six artifacts 0, 2, .. 10 days old, three to keep within thirty days
ExampleList == [i \in 1 .. 6 |-> DatedName(2 * (i - 1), 0)]
DateOfNewest(bs) == bs[Len(bs)].stamp[1]
ExamplePolicy == [count |-> 3, period |-> 30]

InitRetention ==
    /\ \/ /\ backups \in NameLists
          /\ retention \in [count : Counts, period : Periods]
          /\ utc_now \in Nows
       \/ /\ backups = ExampleList
          /\ retention = ExamplePolicy
          /\ utc_now = DateOfNewest(ExampleList)
    /\ to_delete = <<>> /\ to_delete_again = <<>> /\ delete_calls = <<>>
    /\ fpc = "input"
    /\ IdleCycle
    /\ IdleRestore
    /\ IdleScheduler

\* one call of the engine: it returns its Vec, or unwinds
SelectForDeletion ==
    /\ fpc = "input"
    /\ IF DaysOutOfRange(backups, retention)
       THEN fpc' = "panicked" /\ UNCHANGED to_delete
       ELSE /\ to_delete' = filter_backups_to_delete(backups, utc_now, retention)
            /\ fpc' = "selected"
    /\ UNCHANGED <<schVars, backups, retention, utc_now, to_delete_again, delete_calls,
                   cycVars, dockVars, envVars, resVars>>

\* time passes between two calls: Utc::now() will read a later instant
ClockAdvances ==
    /\ fpc = "selected"
    /\ utc_now < MaxStamp
    /\ utc_now' = utc_now + 1
    /\ fpc' = "later"
    /\ UNCHANGED <<schVars, backups, retention, to_delete, to_delete_again, delete_calls,
                   cycVars, dockVars, envVars, resVars>>

\* the engine called once more with the same list and the same policy
SelectAgain ==
    /\ fpc \in {"selected", "later"}
    /\ to_delete_again' = filter_backups_to_delete(backups, utc_now, retention)
    /\ fpc' = "selected_again"
    /\ UNCHANGED <<schVars, backups, retention, utc_now, to_delete, delete_calls,
                   cycVars, dockVars, envVars, resVars>>

NextRetention ==
    \/ SelectForDeletion
    \/ ClockAdvances
    \/ SelectAgain

SpecRetention == InitRetention /\ [][NextRetention]_vars

-----------------------------------------------------------------------------
(* Properties of the retention engine, stated on the naming convention    *)
(* and on the policy as the operator sets it (count and period in days,   *)
(* unsigned).                                                              *)

Selected == fpc = "selected"
DeletionSet == {to_delete[i] : i \in DOMAIN to_delete}
InputSet == {backups[i] : i \in DOMAIN backups}
\* backup-<YYYY-MM-DDTHH-MM-SS>.tar.gz
MatchesConvention(b) == b.pre /\ b.suf /\ b.stamp # <<>>
DateOf(b) == b.stamp[1]
\* cutoff = now - periodDays
Cutoff == utc_now - retention.period * TicksPerDay
\* the artifacts that parse and are dated strictly after the cutoff
InWindow == {b \in InputSet : MatchesConvention(b) /\ DateOf(b) > Cutoff}
Min(a, b) == IF a <= b THEN a ELSE b

\* C2: under the default (unbounded) policy no artifact whose name parses by
\* the naming convention is returned for deletion.
C2_UnboundedNeverDeletes ==
    (Selected /\ retention = DefaultPolicy)
        => \A b \in DeletionSet : ~MatchesConvention(b)

\* C3: with count >= 1 the most recent artifact that parses and is dated
\* strictly after the cutoff now - periodDays is not returned for deletion.
C3_NewestInWindowKept ==
    (Selected /\ retention.count >= 1)
        => \A b \in InWindow :
               (\A o \in InWindow \ {b} : DateOf(o) < DateOf(b)) => b \notin DeletionSet

\* C4: with count = k exactly min(k, |survivor pool|) artifacts of the
\* survivor pool are not returned for deletion.
C4_RetainedIsMin ==
    Selected
        => Cardinality(InWindow \ DeletionSet)
               = Min(retention.count, Cardinality(InWindow))

\* C5: every artifact whose parsed date is not strictly after the cutoff
\* now - periodDays (a date equal to the cutoff included) is returned for
\* deletion, whatever the count and however many slots stay unfilled.
C5_ExpiredDeleted ==
    Selected
        => \A b \in InputSet :
               (MatchesConvention(b) /\ ~(DateOf(b) > Cutoff)) => b \in DeletionSet

\* an artifact dated exactly at the cutoff was deleted although count slots
\* stayed unfilled
C5_Witness ==
    /\ Selected
    /\ \E b \in InputSet :
           MatchesConvention(b) /\ DateOf(b) = Cutoff /\ b \in DeletionSet
    /\ Cardinality(InputSet \ DeletionSet) < retention.count
    /\ retention.count <= MaxCount

\* C6: every name that does not parse by the naming convention is returned
\* for deletion, for every count and period.
C6_UnparseableDeleted ==
    Selected
        => \A b \in InputSet : ~MatchesConvention(b) => b \in DeletionSet

\* an unparseable name was deleted under a policy that retained dated ones
C6_Witness ==
    /\ Selected
    /\ JunkName \in DeletionSet
    /\ InputSet \ DeletionSet # {}

-----------------------------------------------------------------------------
(* The world of a backup cycle: volumes under /backup, the containers     *)
(* that mount them, the server directory.                                  *)

\* get_my_container_id(): the controller's own container
MyId == "self"
Containers == {"c1", "c2", MyId}
Volumes == {"a", "b"}
\* the containers that mount a volume, in the order `docker ps` prints them
Mounted(v) == IF v = "a" THEN <<"c1", MyId, "c2">> ELSE <<"c2">>

\* an object in the server directory that is no backup artifact
ForeignName == [pre |-> FALSE, suf |-> TRUE, stamp |-> <<>>, alt |-> 0]
ClockStart == MaxClock - 1
RemoteNames == {DatedName(0, 0), DatedName(ClockStart, 0), JunkName, ForeignName}
Policies == {DefaultPolicy, [count |-> 1, period |-> 1], [count |-> 0, period |-> 1],
             [count |-> 2, period |-> UsizeMax]}
TzOffsets == {0 - 1, 0, 1}

\* files under temp_path
Archive(v) == <<"archive", v>>
Combined == <<"combined", "-">>

SeqToSet(s) == {s[i] : i \in DOMAIN s}
\* every order in which a listing can enumerate a set
Orderings(S) == {s \in [1 .. Cardinality(S) -> S] : SeqToSet(s) = S}

\* fs::read_dir("/backup") gives the directories in an order of its own
VolumeLists == Orderings({v \in Volumes : mount_exists[v]})

\* the volume stop_containers was called for
CurVolume == IF sc_caller = "backup" THEN volume_names[vi] ELSE restore_names[ri]

Entry(op, ids) == [op |-> op, ctx |-> sc_caller, vol |-> CurVolume, ids |-> ids]

\* run_backup returns r
CycleReturn(r) == cycle_ret' = r /\ pc' = "returned"

\* top of the for loop over volume_names, at index i
LoopPc(i) == IF i > Len(volume_names) THEN "timestamp" ELSE "stop_ps"

-----------------------------------------------------------------------------
(* Transport (Server::list_files, delete_file, upload_file).               *)

\* list_files(): the names in the server directory, in the server's order
ServerListings == Orderings(remote)
\* delete_file(name) succeeded for each of names
ServerAfterDelete(names) == remote \ SeqToSet(names)
\* upload_file(name) succeeded
ServerAfterUpload(name) == remote \cup {name}

-----------------------------------------------------------------------------
(* remove_old_backups                                                      *)

\* a variant filter that lets every listed name through
IsBackupName_Any(n) == TRUE
\* filter(starts_with("backup-") && ends_with(".tar.gz"))
IsBackupName(n) == n.pre /\ n.suf

\* One call: the listing fails, or the engine's names are deleted in order
\* until one delete fails (the `?` returns) or all are deleted.
RemoveOldBackups(next_pc) ==
    \/ /\ CycleReturn("Err_list")
       /\ UNCHANGED <<remote, backups, utc_now, to_delete, to_delete_again, delete_calls>>
    \/ \E listing \in ServerListings :
         LET backup_names == SelectSeq(listing, IsBackupName)
             backups_to_delete == filter_backups_to_delete(backup_names, clock, retention)
         IN /\ backups' = backup_names
            /\ utc_now' = clock
            /\ to_delete' = backups_to_delete
            /\ UNCHANGED to_delete_again
            /\ \E k \in 0 .. Len(backups_to_delete) :
                 /\ remote' = ServerAfterDelete(SubSeq(backups_to_delete, 1, k))
                 /\ delete_calls' = SubSeq(backups_to_delete, 1,
                         IF k < Len(backups_to_delete) THEN k + 1 ELSE k)
                 /\ IF k = Len(backups_to_delete)
                    THEN pc' = next_pc /\ UNCHANGED cycle_ret
                    ELSE CycleReturn("Err_delete")

-----------------------------------------------------------------------------
(* run_backup, step by step                                                *)

\* if !Path::new(temp_path).exists() { fs::create_dir_all(temp_path)?; }
CreateTempDir ==
    /\ pc = "create_temp"
    /\ IF temp_exists
       THEN pc' = "prune_pre" /\ UNCHANGED <<cycle_ret, temp_exists>>
       ELSE \/ temp_exists' = TRUE /\ pc' = "prune_pre" /\ UNCHANGED cycle_ret
            \/ CycleReturn("Err_io") /\ UNCHANGED temp_exists
    /\ UNCHANGED <<schVars, retVars, impl, mode, volume_names, vi, result, combined_name,
                   dockVars, remote, temp, clock, tz, resVars>>

\* remove_old_backups(server_config, retention_config)?  before the volumes
PrunePre ==
    /\ pc = "prune_pre"
    /\ RemoveOldBackups("list_volumes")
    /\ UNCHANGED <<schVars, retention, fpc, impl, mode, volume_names, vi, result, combined_name,
                   dockVars, temp_exists, temp, clock, tz, resVars>>

\* let volume_names = get_volume_dirs(BACKUP_PATH)?  and the loop's first turn
ListVolumes ==
    /\ pc = "list_volumes"
    /\ \/ \E vs \in VolumeLists :
            /\ volume_names' = vs
            /\ vi' = 1
            /\ sc_caller' = "backup"
            /\ pc' = IF vs = <<>> THEN "timestamp" ELSE "stop_ps"
            /\ UNCHANGED cycle_ret
       \/ CycleReturn("Err_io") /\ UNCHANGED <<volume_names, vi, sc_caller>>
    /\ UNCHANGED <<schVars, retVars, impl, mode, result, combined_name, running, ps,
                   container_ids, to_start, exit_fails, calls, envVars, resVars>>

\* compress_folder_to_tar(&volume_path, &backup_archive_path): File::create
\* needs temp_path; a failed run may leave a partial archive behind.
\* current: `let result = ...; start_containers(container_ids)?; result?`
\* legacy:  `compress_folder_to_tar(..)?; start_containers(container_ids)?;`
CompressVolume ==
    /\ pc = "compress"
    /\ \E ok \in {b \in BOOLEAN : b => temp_exists} :
         /\ result' = IF ok THEN "ok" ELSE "err"
         /\ calls' = Append(calls, Entry(IF ok THEN "snap_ok" ELSE "snap_err", <<>>))
         /\ \E left \in {b \in BOOLEAN : (ok => b) /\ (b => temp_exists)} :
              temp' = IF left THEN temp \cup {Archive(CurVolume)} ELSE temp
         /\ IF impl = "legacy" /\ ~ok
            THEN CycleReturn("Err_snapshot")
            ELSE pc' = "start" /\ UNCHANGED cycle_ret
    /\ UNCHANGED <<schVars, retVars, impl, mode, volume_names, vi, combined_name, running,
                   sc_caller, ps, container_ids, to_start, exit_fails, remote,
                   temp_exists, clock, tz, resVars>>

\* a variant that goes on to the next volume whatever the snapshot returned
PropagateResult_IgnoresError ==
    /\ pc = "propagate"
    /\ vi' = vi + 1 /\ pc' = LoopPc(vi + 1) /\ UNCHANGED cycle_ret
    /\ UNCHANGED <<schVars, retVars, impl, mode, volume_names, result, combined_name,
                   dockVars, envVars, resVars>>

\* result?  (current only) and the loop's next turn
PropagateResult ==
    /\ pc = "propagate"
    /\ IF result = "err"
       THEN CycleReturn("Err_snapshot") /\ UNCHANGED vi
       ELSE vi' = vi + 1 /\ pc' = LoopPc(vi + 1) /\ UNCHANGED cycle_ret
    /\ UNCHANGED <<schVars, retVars, impl, mode, volume_names, result, combined_name,
                   dockVars, envVars, resVars>>

\* the wall clock advances; it is read by the prunes and by the timestamp
Tick ==
    /\ pc \in {"prune_pre", "timestamp", "prune_post"}
    /\ clock < MaxClock
    /\ clock' = clock + 1
    /\ UNCHANGED <<schVars, retVars, cycVars, dockVars, remote, temp_exists, temp, tz, resVars>>

\* Local::now().format("%Y-%m-%dT%H-%M-%S"); format!("backup-{}.tar.gz", ..)
TakeTimestamp ==
    /\ pc = "timestamp"
    /\ combined_name' = Some(DatedName(clock + tz, 0))
    /\ pc' = "combine"
    /\ UNCHANGED <<schVars, retVars, impl, mode, cycle_ret, volume_names, vi, result,
                   dockVars, envVars, resVars>>

\* compress_files_to_tar(&archives_paths, &combined_backup_archive_path)?
\* k archives are folded in before it fails or finishes; the legacy codec
\* (backup/utility/compression.rs) removes each file it has folded in.
\* calls records the volumes whose archives were folded in.
ArchivesPaths == [i \in DOMAIN volume_names |-> Archive(volume_names[i])]
Fold(k) == [op |-> "fold", ctx |-> mode, vol |-> "-", ids |-> SubSeq(volume_names, 1, k)]
CombineArchives ==
    /\ pc = "combine"
    /\ IF ~temp_exists
       THEN CycleReturn("Err_combine") /\ UNCHANGED <<temp, calls>>
       ELSE \E k \in 0 .. Len(ArchivesPaths) :
              LET folded == SeqToSet(SubSeq(ArchivesPaths, 1, k))
              IN /\ folded \subseteq temp
                 /\ temp' = (IF impl = "legacy" THEN temp \ folded ELSE temp)
                                \cup {Combined}
                 /\ calls' = Append(calls, Fold(k))
                 /\ \/ /\ k = Len(ArchivesPaths)
                       /\ pc' = "upload"
                       /\ UNCHANGED cycle_ret
                    \/ CycleReturn("Err_combine")
    /\ UNCHANGED <<schVars, retVars, impl, mode, volume_names, vi, result, combined_name,
                   running, sc_caller, ps, container_ids, to_start, exit_fails,
                   remote, temp_exists, clock, tz, resVars>>

\* a call of the transport, as recorded in calls
Transfer(op) == [op |-> op, ctx |-> mode, vol |-> "-", ids |-> <<>>]

\* a variant that clears temp_path when the upload has failed
UploadCombined_CleansOnFailure ==
    /\ pc = "upload"
    /\ \/ /\ remote' = ServerAfterUpload(Unwrap(combined_name))
          /\ calls' = Append(calls, Transfer("upload_ok"))
          /\ pc' = "cleanup"
          /\ UNCHANGED <<cycle_ret, temp, temp_exists>>
       \/ /\ remote' \in {remote, ServerAfterUpload(Unwrap(combined_name))}
          /\ calls' = Append(calls, Transfer("upload_err"))
          /\ temp' = {}
          /\ temp_exists' = FALSE
          /\ CycleReturn("Err_upload")
    /\ UNCHANGED <<schVars, retVars, impl, mode, volume_names, vi, result, combined_name,
                   running, sc_caller, ps, container_ids, to_start, exit_fails,
                   clock, tz, resVars>>

\* upload_file(&server_combined_backup_path, &combined_backup_archive_path)?
\* a failed transfer may leave a partial object under the name
UploadCombined ==
    /\ pc = "upload"
    /\ \/ /\ remote' = ServerAfterUpload(Unwrap(combined_name))
          /\ calls' = Append(calls, Transfer("upload_ok"))
          /\ pc' = "cleanup"
          /\ UNCHANGED cycle_ret
       \/ /\ remote' \in {remote, ServerAfterUpload(Unwrap(combined_name))}
          /\ calls' = Append(calls, Transfer("upload_err"))
          /\ CycleReturn("Err_upload")
    /\ UNCHANGED <<schVars, retVars, impl, mode, volume_names, vi, result, combined_name,
                   running, sc_caller, ps, container_ids, to_start, exit_fails,
                   temp_exists, temp, clock, tz, resVars>>

\* current: fs::remove_dir_all(temp_path)?   then the second prune
\* legacy:  fs::remove_file(&combined_backup_archive_path)?  then Ok(())
CleanupTemp ==
    /\ pc = "cleanup"
    /\ \/ /\ impl = "current"
          /\ temp' = {}
          /\ temp_exists' = FALSE
          /\ pc' = "prune_post"
          /\ UNCHANGED cycle_ret
       \/ /\ impl = "legacy"
          /\ temp' = temp \ {Combined}
          /\ CycleReturn("Ok")
          /\ UNCHANGED temp_exists
       \/ CycleReturn("Err_io") /\ UNCHANGED <<temp, temp_exists>>
    /\ UNCHANGED <<schVars, retVars, impl, mode, volume_names, vi, result, combined_name,
                   dockVars, remote, clock, tz, resVars>>

\* a variant without the prune after the upload
PrunePost_Skipped ==
    /\ pc = "prune_post"
    /\ pc' = "finish"
    /\ UNCHANGED <<schVars, retVars, impl, mode, cycle_ret, volume_names, vi, result,
                   combined_name, dockVars, envVars, resVars>>

\* remove_old_backups(server_config, retention_config)?  after the upload
PrunePost ==
    /\ pc = "prune_post"
    /\ RemoveOldBackups("finish")
    /\ UNCHANGED <<schVars, retention, fpc, impl, mode, volume_names, vi, result, combined_name,
                   dockVars, temp_exists, temp, clock, tz, resVars>>

\* println!(..); Ok(())
FinishCycle ==
    /\ pc = "finish"
    /\ CycleReturn("Ok")
    /\ UNCHANGED <<schVars, retVars, impl, mode, volume_names, vi, result, combined_name,
                   dockVars, envVars, resVars>>

-----------------------------------------------------------------------------
(* stop_containers / start_containers (utility/docker.rs), one docker      *)
(* command per step.  Command::output() is an Err only when the command   *)
(* cannot be run; its exit status is not looked at.                        *)

\* what one `docker stop` / `docker start` can do
CmdOutcomes ==
    {"spawn_err", "exit_ok"} \cup (IF exit_fails < MaxExitFail THEN {"exit_fail"} ELSE {})

\* stop_containers returns Err(..) to its caller, whose `?` returns it
StopContainersErr ==
    /\ calls' = Append(calls, Entry("stop_err", container_ids))
    /\ IF sc_caller = "backup"
       THEN CycleReturn("Err_stop") /\ UNCHANGED restore_ret
       ELSE restore_ret' = "Err_stop" /\ pc' = "r_returned" /\ UNCHANGED cycle_ret

\* stop_containers returns Ok(container_ids)
StopContainersOk ==
    /\ calls' = Append(calls, Entry("stop_ok", container_ids))
    /\ pc' = IF sc_caller = "backup" THEN "compress" ELSE "r_check_mount"
    /\ UNCHANGED <<cycle_ret, restore_ret>>

\* docker ps -q --filter volume=<volume>: the running containers on it
DockerPs ==
    /\ pc = "stop_ps"
    /\ \/ /\ ps' = SelectSeq(Mounted(CurVolume), LAMBDA c : c \in running)
          /\ calls' = Append(calls, Entry("ps", ps'))
          /\ container_ids' = <<>>
          /\ pc' = "stop_loop"
          /\ UNCHANGED <<cycle_ret, restore_ret>>
       \/ /\ container_ids' = <<>>
          /\ calls' = Append(calls, Entry("stop_err", <<>>))
          /\ IF sc_caller = "backup"
             THEN CycleReturn("Err_stop") /\ UNCHANGED restore_ret
             ELSE restore_ret' = "Err_stop" /\ pc' = "r_returned" /\ UNCHANGED cycle_ret
          /\ UNCHANGED ps
    /\ UNCHANGED <<schVars, retVars, impl, mode, volume_names, vi, result, combined_name,
                   running, sc_caller, to_start, exit_fails, envVars, resData>>

\* a variant that does not compare container_id with get_my_container_id()
StopNext_NoSelfCheck ==
    /\ pc = "stop_loop"
    /\ IF ps = <<>>
       THEN StopContainersOk /\ UNCHANGED <<ps, container_ids, running, exit_fails>>
       ELSE \/ \* get_my_container_id()? fails
               StopContainersErr /\ UNCHANGED <<ps, container_ids, running, exit_fails>>
            \/ /\ \E out \in CmdOutcomes :
                    IF out = "spawn_err"
                    THEN StopContainersErr
                         /\ UNCHANGED <<ps, container_ids, running, exit_fails>>
                    ELSE /\ running' = IF out = "exit_ok" THEN running \ {Head(ps)}
                                       ELSE running
                         /\ exit_fails' = exit_fails + (IF out = "exit_fail" THEN 1 ELSE 0)
                         /\ container_ids' = Append(container_ids, Head(ps))
                         /\ ps' = Tail(ps)
                         /\ UNCHANGED <<calls, pc, cycle_ret, restore_ret>>
    /\ UNCHANGED <<schVars, retVars, impl, mode, volume_names, vi, result, combined_name,
                   sc_caller, to_start, envVars, resData>>

\* one turn of `for container_id in containers.trim().split('\n')`
StopNext ==
    /\ pc = "stop_loop"
    /\ IF ps = <<>>
       THEN StopContainersOk /\ UNCHANGED <<ps, container_ids, running, exit_fails>>
       ELSE \/ \* get_my_container_id()? fails
               StopContainersErr /\ UNCHANGED <<ps, container_ids, running, exit_fails>>
            \/ \* the controller's own container: continue
               /\ Head(ps) = MyId
               /\ ps' = Tail(ps)
               /\ UNCHANGED <<container_ids, running, exit_fails, calls, pc,
                              cycle_ret, restore_ret>>
            \/ /\ Head(ps) # MyId
               /\ \E out \in CmdOutcomes :
                    IF out = "spawn_err"
                    THEN StopContainersErr
                         /\ UNCHANGED <<ps, container_ids, running, exit_fails>>
                    ELSE /\ running' = IF out = "exit_ok" THEN running \ {Head(ps)}
                                       ELSE running
                         /\ exit_fails' = exit_fails + (IF out = "exit_fail" THEN 1 ELSE 0)
                         /\ container_ids' = Append(container_ids, Head(ps))
                         /\ ps' = Tail(ps)
                         /\ UNCHANGED <<calls, pc, cycle_ret, restore_ret>>
    /\ UNCHANGED <<schVars, retVars, impl, mode, volume_names, vi, result, combined_name,
                   sc_caller, to_start, envVars, resData>>

\* start_containers(container_ids) is called
StartContainers ==
    /\ pc = "start"
    /\ calls' = Append(calls, Entry("start", container_ids))
    /\ to_start' = container_ids
    /\ pc' = "start_loop"
    /\ UNCHANGED <<schVars, retVars, impl, mode, cycle_ret, volume_names, vi, result,
                   combined_name, running, sc_caller, ps, container_ids, exit_fails,
                   envVars, resVars>>

\* one turn of `for container_id in container_ids`, or its return; a start
\* command that could not run or exited non-zero is recorded in calls
StartNext ==
    /\ pc = "start_loop"
    /\ IF to_start = <<>>
       THEN /\ IF sc_caller = "restore"
               THEN pc' = "r_next" /\ UNCHANGED vi
               ELSE IF impl = "current"
                    THEN pc' = "propagate" /\ UNCHANGED vi
                    ELSE vi' = vi + 1 /\ pc' = LoopPc(vi + 1)
            /\ UNCHANGED <<to_start, running, exit_fails, calls, cycle_ret, restore_ret>>
       ELSE \E out \in CmdOutcomes :
              IF out = "spawn_err"
              THEN /\ IF sc_caller = "backup"
                      THEN CycleReturn("Err_start") /\ UNCHANGED restore_ret
                      ELSE /\ restore_ret' = "Err_start"
                           /\ pc' = "r_returned"
                           /\ UNCHANGED cycle_ret
                   /\ calls' = Append(calls, Entry("start_failed", <<Head(to_start)>>))
                   /\ UNCHANGED <<to_start, running, exit_fails, vi>>
              ELSE /\ running' = IF out = "exit_ok" THEN running \cup {Head(to_start)}
                                 ELSE running
                   /\ exit_fails' = exit_fails + (IF out = "exit_fail" THEN 1 ELSE 0)
                   /\ calls' = IF out = "exit_fail"
                               THEN Append(calls, Entry("start_failed", <<Head(to_start)>>))
                               ELSE calls
                   /\ to_start' = Tail(to_start)
                   /\ UNCHANGED <<pc, vi, cycle_ret, restore_ret>>
    /\ UNCHANGED <<schVars, retVars, impl, mode, volume_names, result, combined_name,
                   sc_caller, ps, container_ids, envVars, resData>>

-----------------------------------------------------------------------------
(* run_backup on its own (one cycle of the "backup" action).               *)

RemoteInits == {r \in SUBSET RemoteNames : Cardinality(r) <= 2}

InitCycleWorld ==
    /\ cycle_ret = "none" /\ volume_names = <<>> /\ vi = 0 /\ result = "none"
    /\ combined_name = None
    /\ running = Containers /\ sc_caller = "none" /\ ps = <<>>
    /\ container_ids = <<>> /\ to_start = <<>> /\ exit_fails = 0 /\ calls = <<>>
    /\ remote \in RemoteInits /\ temp = {}
    /\ clock = ClockStart /\ tz \in TzOffsets
    /\ backups = <<>> /\ utc_now = 0 /\ to_delete = <<>> /\ to_delete_again = <<>> /\ delete_calls = <<>>
    /\ fpc = "input"

InitBackup ==
    /\ impl \in {"current", "legacy"}
    /\ mode = "backup"
    /\ pc = IF impl = "current" THEN "create_temp" ELSE "list_volumes"
    /\ temp_exists \in BOOLEAN
    /\ retention \in Policies
    /\ InitCycleWorld
    /\ artifact_selector = "none" /\ ls_output = <<>> /\ volume_selector = "none" /\ bundle = <<>>
    /\ backup_file_name = None
    /\ restore_names = <<>> /\ ri = 0 /\ restore_ret = "none"
    /\ data = [v \in Volumes |-> "orig"]
    /\ mount_exists = [v \in Volumes |-> TRUE]
    /\ IdleScheduler

NextBackup ==
    \/ CreateTempDir
    \/ PrunePre
    \/ ListVolumes
    \/ DockerPs
    \/ StopNext
    \/ CompressVolume
    \/ StartContainers
    \/ StartNext
    \/ PropagateResult
    \/ Tick
    \/ TakeTimestamp
    \/ CombineArchives
    \/ UploadCombined
    \/ CleanupTemp
    \/ PrunePost
    \/ FinishCycle

SpecBackup == InitBackup /\ [][NextBackup]_vars

-----------------------------------------------------------------------------
(* restore_volumes (restore.rs), step by step.  Its run_backup is either  *)
(* one: backup.rs by the path of the call, backup/backup.rs by its six     *)
(* arguments.                                                              *)

\* files under temp_path written by restore
Bundle == <<"bundle", "-">>
Extracted(v) == <<"extracted", v>>
Staging(v) == <<"staging", v>>

\* restore_volumes returns r
RestoreReturn(r) == restore_ret' = r /\ pc' = "r_returned"

\* top of `for volume in &volume_names`, at index i
RestoreLoopPc(i) == IF i > Len(restore_names) THEN "r_cleanup" ELSE "r_decompress"

\* what `ls -t <dir>/backup-*.tar.gz` can print: the matching names, newest
\* modification first (any order, as far as the names tell)
LsNewestFirst == Orderings({m \in remote : IsBackupName(m)})

\* a variant that takes the last line of the listing
ResolveArtifact_TakesLast ==
    /\ pc = "r_resolve"
    /\ IF artifact_selector = None
       THEN \/ \E backup_files \in LsNewestFirst :
                 /\ ls_output' = backup_files
                 /\ IF backup_files # <<>>
                    THEN /\ backup_file_name' = Some(backup_files[Len(backup_files)])
                         /\ pc' = "r_download"
                         /\ UNCHANGED restore_ret
                    ELSE RestoreReturn("Err_latest") /\ UNCHANGED backup_file_name
            \/ /\ RestoreReturn("Err_latest")
               /\ UNCHANGED <<backup_file_name, ls_output>>
       ELSE /\ backup_file_name' = artifact_selector
            /\ pc' = "r_download"
            /\ UNCHANGED <<restore_ret, ls_output>>
    /\ UNCHANGED <<schVars, retVars, cycVars_but_pc, dockVars, envVars, artifact_selector,
                   volume_selector, bundle, restore_names, ri, data, mount_exists>>

\* backup_to_be_restored == "latest": get_latest_backup_file_name_from_server
\* takes the first line of the listing, or fails when there is none or when
\* the session fails; otherwise the given name is used
ResolveArtifact ==
    /\ pc = "r_resolve"
    /\ IF artifact_selector = None
       THEN \/ \E backup_files \in LsNewestFirst :
                 /\ ls_output' = backup_files
                 /\ IF backup_files # <<>>
                    THEN /\ backup_file_name' = Some(Head(backup_files))
                         /\ pc' = "r_download"
                         /\ UNCHANGED restore_ret
                    ELSE RestoreReturn("Err_latest") /\ UNCHANGED backup_file_name
            \/ /\ RestoreReturn("Err_latest")
               /\ UNCHANGED <<backup_file_name, ls_output>>
       ELSE /\ backup_file_name' = artifact_selector
            /\ pc' = "r_download"
            /\ UNCHANGED <<restore_ret, ls_output>>
    /\ UNCHANGED <<schVars, retVars, cycVars_but_pc, dockVars, envVars, artifact_selector,
                   volume_selector, bundle, restore_names, ri, data, mount_exists>>

\* download_from_server(.., &remote_backup_path, &local_backup_path, ..)?
DownloadArtifact ==
    /\ pc = "r_download"
    /\ \/ /\ Unwrap(backup_file_name) \in remote
          /\ temp_exists
          /\ temp' = temp \cup {Bundle}
          /\ pc' = "r_extract"
          /\ UNCHANGED restore_ret
       \/ RestoreReturn("Err_download") /\ UNCHANGED temp
    /\ UNCHANGED <<schVars, retVars, cycVars_but_pc, dockVars, remote, temp_exists, clock, tz,
                   resData>>

\* a variant that takes every volume of the bundle whatever the selector
ExtractVolumes_AlwaysAll ==
    /\ pc = "r_extract"
    /\ \/ /\ temp' = temp \cup {Extracted(bundle[i]) : i \in DOMAIN bundle}
          /\ restore_names' = bundle
          /\ pc' = "r_backup"
          /\ UNCHANGED restore_ret
       \/ /\ RestoreReturn("Err_extract")
          /\ \E k \in 0 .. Len(bundle) :
               temp' = temp \cup {Extracted(bundle[i]) : i \in 1 .. k}
          /\ UNCHANGED restore_names
    /\ UNCHANGED <<schVars, retVars, cycVars_but_pc, dockVars, remote, temp_exists, clock, tz,
                   artifact_selector, ls_output, volume_selector, bundle, backup_file_name,
                   ri, data, mount_exists>>

\* extract_volumes_from_backup: unpack the bundle into <temp>/volumes, then
\* "all" => get_names_of_all_volumes, otherwise split(',') of the selector
ExtractVolumes ==
    /\ pc = "r_extract"
    /\ \/ /\ temp' = temp \cup {Extracted(bundle[i]) : i \in DOMAIN bundle}
          /\ restore_names' = IF volume_selector = None THEN bundle
                              ELSE Unwrap(volume_selector)
          /\ pc' = "r_backup"
          /\ UNCHANGED restore_ret
       \/ /\ RestoreReturn("Err_extract")
          /\ \E k \in 0 .. Len(bundle) :
               temp' = temp \cup {Extracted(bundle[i]) : i \in 1 .. k}
          /\ UNCHANGED restore_names
    /\ UNCHANGED <<schVars, retVars, cycVars_but_pc, dockVars, remote, temp_exists, clock, tz,
                   artifact_selector, ls_output, volume_selector, bundle, backup_file_name,
                   ri, data, mount_exists>>

\* run_backup(server_ip, .., temp_path)  is entered
CallSafetyBackup ==
    /\ pc = "r_backup"
    /\ pc' = IF impl = "current" THEN "create_temp" ELSE "list_volumes"
    /\ UNCHANGED <<schVars, retVars, cycVars_but_pc, dockVars, envVars, resVars>>

\* a variant that goes on to the volumes whatever run_backup returned
AfterSafetyBackup_IgnoresError ==
    /\ pc = "returned"
    /\ mode = "restore"
    /\ ri' = 1
    /\ pc' = RestoreLoopPc(1)
    /\ UNCHANGED restore_ret
    /\ UNCHANGED <<schVars, retVars, cycVars_but_pc, dockVars, envVars, artifact_selector, ls_output,
                   volume_selector, bundle, backup_file_name, restore_names, data,
                   mount_exists>>

\* run_backup(..)?  has returned: its Err is returned, else the loop starts
AfterSafetyBackup ==
    /\ pc = "returned"
    /\ mode = "restore"
    /\ IF cycle_ret = "Ok"
       THEN ri' = 1 /\ pc' = RestoreLoopPc(1) /\ UNCHANGED restore_ret
       ELSE RestoreReturn(cycle_ret) /\ UNCHANGED ri
    /\ UNCHANGED <<schVars, retVars, cycVars_but_pc, dockVars, envVars, artifact_selector, ls_output,
                   volume_selector, bundle, backup_file_name, restore_names, data,
                   mount_exists>>

\* decompress_file_from_tar(&volume_backup_path, &volume_extract_path)?
\* then replace_volume_data_with_dir is entered: stop_containers(volume_name)?
DecompressVolume ==
    /\ pc = "r_decompress"
    /\ \/ /\ Extracted(restore_names[ri]) \in temp
          /\ temp' = temp \cup {Staging(restore_names[ri])}
          /\ sc_caller' = "restore"
          /\ pc' = "stop_ps"
          /\ UNCHANGED restore_ret
       \/ RestoreReturn("Err_decompress") /\ UNCHANGED <<temp, sc_caller>>
    /\ UNCHANGED <<schVars, retVars, cycVars_but_pc, running, ps, container_ids, to_start,
                   exit_fails, calls, remote, temp_exists, clock, tz, resData>>

\* a variant that passes over a volume whose mount path is missing
CheckMount_SkipsMissing ==
    /\ pc = "r_check_mount"
    /\ pc' = IF mount_exists[restore_names[ri]] THEN "r_remove" ELSE "start"
    /\ UNCHANGED <<schVars, retVars, cycVars_but_pc, dockVars, envVars, resVars>>

\* if !Path::new(&container_path).exists() { return Err(..) }
CheckMount ==
    /\ pc = "r_check_mount"
    /\ IF mount_exists[restore_names[ri]]
       THEN pc' = "r_remove" /\ UNCHANGED restore_ret
       ELSE RestoreReturn("Err_no_volume")
    /\ UNCHANGED <<schVars, retVars, cycVars_but_pc, dockVars, envVars, resData>>

\* a variant that, on failure, puts back what the volumes restored before
\* held
RemoveExisting_RollsBack ==
    /\ pc = "r_remove"
    /\ \/ /\ data' = [data EXCEPT ![restore_names[ri]] = "emptied"]
          /\ pc' = "r_move"
          /\ UNCHANGED restore_ret
       \/ /\ data' = [v \in Volumes |-> "orig"]
          /\ RestoreReturn("Err_io")
    /\ UNCHANGED <<schVars, retVars, cycVars_but_pc, dockVars, envVars, artifact_selector, ls_output,
                   volume_selector, bundle, backup_file_name, restore_names, ri,
                   mount_exists>>

\* collect_paths(&container_path)?; remove_items(&volume_data)?
RemoveExisting ==
    /\ pc = "r_remove"
    /\ \/ /\ data' = [data EXCEPT ![restore_names[ri]] = "emptied"]
          /\ pc' = "r_move"
          /\ UNCHANGED restore_ret
       \/ /\ \E d \in {data[restore_names[ri]], "partly_removed"} :
               data' = [data EXCEPT ![restore_names[ri]] = d]
          /\ RestoreReturn("Err_io")
    /\ UNCHANGED <<schVars, retVars, cycVars_but_pc, dockVars, envVars, artifact_selector, ls_output,
                   volume_selector, bundle, backup_file_name, restore_names, ri,
                   mount_exists>>

\* a variant that goes on with the containers and the next volume when the
\* move has failed
MoveStaged_GoesOn ==
    /\ pc = "r_move"
    /\ \E d \in {"restored", data[restore_names[ri]], "partly_moved"} :
         data' = [data EXCEPT ![restore_names[ri]] = d]
    /\ pc' = "start"
    /\ UNCHANGED restore_ret
    /\ UNCHANGED <<schVars, retVars, cycVars_but_pc, dockVars, envVars, artifact_selector, ls_output,
                   volume_selector, bundle, backup_file_name, restore_names, ri,
                   mount_exists>>

\* collect_paths(&dir_path)?; move_items(&dir_data, &container_path, ..)?
\* then start_containers(container_ids)? is reached
MoveStaged ==
    /\ pc = "r_move"
    /\ \/ /\ data' = [data EXCEPT ![restore_names[ri]] = "restored"]
          /\ pc' = "start"
          /\ UNCHANGED restore_ret
       \/ /\ \E d \in {data[restore_names[ri]], "partly_moved"} :
               data' = [data EXCEPT ![restore_names[ri]] = d]
          /\ RestoreReturn("Err_io")
    /\ UNCHANGED <<schVars, retVars, cycVars_but_pc, dockVars, envVars, artifact_selector, ls_output,
                   volume_selector, bundle, backup_file_name, restore_names, ri,
                   mount_exists>>

\* replace_volume_data_with_dir returned Ok(()): the loop's next turn
NextRestoreVolume ==
    /\ pc = "r_next"
    /\ ri' = ri + 1
    /\ pc' = RestoreLoopPc(ri + 1)
    /\ UNCHANGED <<schVars, retVars, cycVars_but_pc, dockVars, envVars, artifact_selector, ls_output,
                   volume_selector, bundle, backup_file_name, restore_names, data,
                   mount_exists, restore_ret>>

\* fs::remove_dir_all(temp_path)?; Ok(())
RestoreCleanup ==
    /\ pc = "r_cleanup"
    /\ \/ /\ temp_exists
          /\ temp' = {}
          /\ temp_exists' = FALSE
          /\ RestoreReturn("Ok")
       \/ RestoreReturn("Err_io") /\ UNCHANGED <<temp, temp_exists>>
    /\ UNCHANGED <<schVars, retVars, cycVars_but_pc, dockVars, remote, clock, tz, resData>>

ArtifactSelectors == {None, Some(DatedName(0, 0))}
VolumeSelectors == {None, Some(<<"a">>), Some(<<"b", "a">>)}
Bundles == {<<"a", "b">>, <<"b", "a">>, <<"b">>}
MountSets == {[v \in Volumes |-> TRUE], [v \in Volumes |-> v # "a"]}

InitRestore ==
    /\ impl \in {"current", "legacy"}
    /\ mode = "restore"
    /\ pc = "r_resolve"
    /\ temp_exists \in BOOLEAN
    /\ retention = DefaultPolicy
    /\ InitCycleWorld
    /\ tz = 0
    /\ artifact_selector \in ArtifactSelectors
    /\ ls_output = <<>>
    /\ volume_selector \in VolumeSelectors
    /\ bundle \in Bundles
    /\ backup_file_name = None
    /\ restore_names = <<>> /\ ri = 0 /\ restore_ret = "none"
    /\ data = [v \in Volumes |-> "orig"]
    /\ mount_exists \in MountSets
    /\ IdleScheduler

NextRestore ==
    \/ ResolveArtifact
    \/ DownloadArtifact
    \/ ExtractVolumes
    \/ CallSafetyBackup
    \/ CreateTempDir
    \/ PrunePre
    \/ ListVolumes
    \/ DockerPs
    \/ StopNext
    \/ CompressVolume
    \/ StartContainers
    \/ StartNext
    \/ PropagateResult
    \/ Tick
    \/ TakeTimestamp
    \/ CombineArchives
    \/ UploadCombined
    \/ CleanupTemp
    \/ PrunePost
    \/ FinishCycle
    \/ AfterSafetyBackup
    \/ DecompressVolume
    \/ CheckMount
    \/ RemoveExisting
    \/ MoveStaged
    \/ NextRestoreVolume
    \/ RestoreCleanup

SpecRestore == InitRestore /\ [][NextRestore]_vars

C25_SameInputsSameDeletionSet ==
    fpc = "selected_again" => SeqToSet(to_delete_again) = SeqToSet(to_delete)

\* The reference selection: the survivor pool is the artifacts of the naming
\* convention dated strictly after now - period days, newest first (equal
\* dates in the order of the list); each pass retains index 0 and every
\* index at least `interval` past the last one retained.
PosOf(b) == CHOOSE i \in DOMAIN backups : backups[i] = b
Newer(a, b) == DateOf(a) > DateOf(b) \/ (DateOf(a) = DateOf(b) /\ PosOf(a) < PosOf(b))
RankOf(b) == 1 + Cardinality({a \in InWindow : Newer(a, b)})
RefPool == [i \in 1 .. Cardinality(InWindow) |-> CHOOSE b \in InWindow : RankOf(b) = i]
Ceil(a, b) == IF a % b = 0 THEN a \div b ELSE (a \div b) + 1

RECURSIVE RefScan(_, _, _, _)
RefScan(len, i, lastRetained, interval) ==
    IF i >= len THEN {}
    ELSE IF i = 0 \/ i - lastRetained >= interval
         THEN {i} \cup RefScan(len, i + 1, i, interval)
         ELSE RefScan(len, i + 1, lastRetained, interval)

RECURSIVE RefLoop(_, _, _)
RefLoop(pool, retained, count) ==
    IF Cardinality(retained) >= count \/ pool = <<>> THEN retained
    ELSE LET interval == Ceil(Len(pool), count - Cardinality(retained))
             picked == {pool[i + 1] : i \in RefScan(Len(pool), 0, 0, interval)}
         IN RefLoop(SelectSeq(pool, LAMBDA b : b \notin picked), retained \cup picked, count)

RefRetained == RefLoop(RefPool, {}, retention.count)

\* C28: the deletion set is the input names minus the set the reference
\* selection retains.
C28_MatchesReference ==
    Selected => DeletionSet = InputSet \ RefRetained

\* C29: for every list and every policy the engine returns a deletion set:
\* it does not panic, and for an empty list the set is empty.
C29_TotalAndTerminating ==
    /\ fpc # "panicked"
    /\ (Selected /\ backups = <<>>) => to_delete = <<>>

-----------------------------------------------------------------------------
(* Properties of the backup cycle.                                         *)

CycleReturned == pc = "returned"
\* positions of the history where op happened in a backup cycle
At(op) == {i \in DOMAIN calls : calls[i].op = op /\ calls[i].ctx = "backup"}
\* the calls of start_containers made for the volume of entry i, after it
StartsAfter(i) ==
    {j \in DOMAIN calls : /\ j > i
                          /\ calls[j].op = "start"
                          /\ calls[j].ctx = calls[i].ctx
                          /\ calls[j].vol = calls[i].vol}

\* C1: when a cycle has returned, for every volume whose containers were
\* stopped start_containers was called exactly once, with the handle list
\* stop_containers returned, whether the snapshot succeeded or failed; and a
\* failed snapshot's error is what the cycle returned, after that call.
C1_ResumeAlways ==
    CycleReturned
        => /\ \A i \in At("stop_ok") :
                calls[i].ids # <<>>
                    => /\ Cardinality(StartsAfter(i)) = 1
                       /\ \A j \in StartsAfter(i) : calls[j].ids = calls[i].ids
           /\ \A i \in At("snap_err") :
                cycle_ret = "Err_snapshot" /\ StartsAfter(i) # {}

\* C8: when stop_containers failed after it had stopped one or more
\* containers of the volume, start_containers is called for them before the
\* cycle returns the error.
C8_ResumeAfterPartialStop ==
    CycleReturned
        => \A i \in At("stop_err") :
               calls[i].ids # <<>>
                   => \E j \in StartsAfter(i) :
                          SeqToSet(calls[i].ids) \subseteq SeqToSet(calls[j].ids)

\* the upload calls of the cycle
Uploads(cs) == {i \in DOMAIN cs : cs[i].op \in {"upload_ok", "upload_err"}}
UploadSucceeded(cs) == \E i \in DOMAIN cs : cs[i].op = "upload_ok"

\* C14: a step of the cycle deletes the temp workspace only when the upload
\* has succeeded; the step at which the upload fails is the cycle's only
\* upload, returns the error and leaves the workspace as it was, combined
\* archive included.
C14_TempKeptOnUploadFailure ==
    [][/\ (temp_exists /\ ~temp_exists') => UploadSucceeded(calls)
       /\ (pc = "upload" /\ cycle_ret' = "Err_upload")
              => /\ pc' = "returned"
                 /\ temp_exists' /\ temp' = temp /\ Combined \in temp'
                 /\ Cardinality(Uploads(calls')) = 1]_vars

\* the upload failed with the archives of both volumes and the combined
\* archive in the workspace
C14_Witness ==
    /\ mode = "backup" /\ impl = "current"
    /\ CycleReturned /\ cycle_ret = "Err_upload"
    /\ temp = {Archive("a"), Archive("b"), Combined}

\* the convention-named artifacts in the server directory
KeptArtifacts == {n \in remote : MatchesConvention(n)}

\* C15: when a cycle run with a policy has completed, the server directory
\* holds at most count convention-named artifacts and none dated at or
\* before now - period.
C15_KeptSetBounded ==
    (mode = "backup" /\ impl = "current" /\ CycleReturned /\ cycle_ret = "Ok")
        => /\ Cardinality(KeptArtifacts) <= retention.count
           /\ \A n \in KeptArtifacts :
                  DateOf(n) > clock - retention.period * TicksPerDay

\* a completed cycle whose second prune had two artifacts in the window,
\* kept one and deleted the other
C15_Witness ==
    /\ mode = "backup" /\ impl = "current" /\ CycleReturned /\ cycle_ret = "Ok"
    /\ retention = [count |-> 1, period |-> 1]
    /\ Cardinality(KeptArtifacts) = 1
    /\ \E i \in DOMAIN to_delete :
           /\ MatchesConvention(to_delete[i])
           /\ DateOf(to_delete[i]) > clock - retention.period * TicksPerDay

\* C31: when a cycle run with a policy of count >= 1 and period >= 1 (the
\* default policy included), at a local-time offset of less than a day, has
\* completed, the artifact it uploaded is in the server directory.
C31_OwnArtifactKept ==
    (/\ mode = "backup" /\ CycleReturned /\ cycle_ret = "Ok"
     /\ retention.count >= 1 /\ retention.period >= 1
     /\ tz < TicksPerDay /\ 0 - tz < TicksPerDay)
        => Unwrap(combined_name) \in remote

\* C16: a prune calls delete_file for every name the engine returned, also
\* when one of the calls has failed.
C16_DeleteFailureTolerated ==
    SeqToSet(delete_calls) = SeqToSet(to_delete)

\* C17: no step removes from the server directory an object whose name
\* lacks the prefix backup- or the suffix .tar.gz.
C17_ForeignObjectsKept ==
    [][\A n \in remote : ~(n.pre /\ n.suf) => n \in remote']_vars

\* a prune has deleted an artifact from a directory that holds a foreign
\* object
C17_Witness ==
    /\ mode = "backup"
    /\ ForeignName \in remote
    /\ delete_calls # <<>>
    /\ \E i \in DOMAIN delete_calls : delete_calls[i] \notin remote

\* C26: the name the cycle makes at an instant T parses back, with the
\* engine's parser, to the instant T.
C26_NameRoundTrip ==
    pc = "combine" => parse_backup_date(Unwrap(combined_name)) = Some(clock)

\* C30: once the combination step has folded in the archives of the first k
\* volumes, those archives are gone from the temp workspace and the
\* archives of the other volumes are still there.
C30_FoldedArchivesRemoved ==
    (calls # <<>> /\ calls[Len(calls)].op = "fold") =>
        LET k == Len(calls[Len(calls)].ids)
        IN \A i \in DOMAIN volume_names :
               Archive(volume_names[i]) \in temp <=> i > k

-----------------------------------------------------------------------------
(* Properties of restore.                                                  *)

RestoreReturned == pc = "r_returned"
SafetyBackupFailed == cycle_ret \notin {"none", "Ok"}

\* C7: when restore has returned, for every selected volume whose
\* containers were stopped by replace_volume_data_with_dir, start_containers
\* was called on the same containers, whatever the replacement step did.
C7_RestoreResumes ==
    RestoreReturned
        => \A i \in DOMAIN calls :
               (calls[i].op = "stop_ok" /\ calls[i].ctx = "restore" /\ calls[i].ids # <<>>)
                   => \E j \in StartsAfter(i) : calls[j].ids = calls[i].ids

\* C9: a volume's data is changed only after the safety backup has returned
\* Ok; when the safety backup failed, restore returns its error and every
\* volume's data is as it was.
C9_BackupBeforeMutation ==
    /\ (\E v \in Volumes : data[v] # "orig") => cycle_ret = "Ok"
    /\ (RestoreReturned /\ SafetyBackupFailed)
           => (restore_ret = cycle_ret /\ \A v \in Volumes : data[v] = "orig")

\* a volume was restored after a successful safety backup
C9_Witness ==
    /\ mode = "restore"
    /\ cycle_ret = "Ok"
    /\ \E v \in Volumes : data[v] = "restored"

-----------------------------------------------------------------------------
(* configure_cron_scheduled_backup: the loop, one statement per step.      *)
(* The cycle it invokes is seen here by its duration, the artifact it      *)
(* names and uploads, and its result; its steps are those of SpecBackup.   *)

\* ticks between two occurrences of the schedule
Period == cron_every * TicksPerSec
\* schedule.upcoming(Local).next() at instant t: the first occurrence (a
\* whole second) strictly after t, None when the schedule has none
\* a variant that finds an occurrence in every second when the schedule has none
Upcoming_NeverNone(t) ==
    IF cron_every = 0 THEN Some(((t \div TicksPerSec) + 1) * TicksPerSec)
    ELSE Some(((t \div Period) + 1) * Period)
Upcoming(t) == IF cron_every = 0 THEN None ELSE Some(((t \div Period) + 1) * Period)
\* std::time::Duration::from_secs(duration.num_seconds() as u64), in ticks
SleepTicks(d) == (d \div TicksPerSec) * TicksPerSec

\* the clock advances
SchedTick ==
    /\ mode = "sched"
    /\ pc # "s_returned"
    /\ clock < MaxSchedClock
    /\ clock' = clock + 1
    /\ UNCHANGED <<schVars, retVars, cycVars, dockVars, remote, temp_exists, temp, tz,
                   resVars>>

\* let now = Local::now();
ReadNow ==
    /\ pc = "s_now"
    /\ loop_now' = clock
    /\ pc' = "s_upcoming"
    /\ UNCHANGED <<cron_every, last, next_time, sleep_until, fired, invoked_at,
                   skipped, outcomes, returned_at, uploaded, sched_ret, retVars, cycVars_but_pc,
                   dockVars, envVars,
                   resVars>>

\* a variant without `if last.is_some() && last.unwrap() >= next_time`
ComputeUpcoming_NoGuard ==
    /\ pc = "s_upcoming"
    /\ LET upcoming == Upcoming(clock)
       IN IF ~IsSome(upcoming)
          THEN pc' = "s_now" /\ UNCHANGED <<last, next_time, sleep_until, skipped>>
          ELSE /\ last' = upcoming
               /\ next_time' = Unwrap(upcoming)
               /\ sleep_until' = clock + SleepTicks(Unwrap(upcoming) - loop_now)
               /\ pc' = "s_sleep"
               /\ UNCHANGED skipped
    /\ UNCHANGED <<cron_every, loop_now, fired, invoked_at, outcomes, returned_at, uploaded,
                   sched_ret, retVars,
                   cycVars_but_pc, dockVars, envVars, resVars>>

\* a variant that serves the occurrence after the last one served, however
\* long ago it was due
ComputeUpcoming_Queued ==
    /\ pc = "s_upcoming"
    /\ LET upcoming == IF IsSome(last) THEN Upcoming(Unwrap(last)) ELSE Upcoming(clock)
       IN IF ~IsSome(upcoming)
          THEN pc' = "s_now" /\ UNCHANGED <<last, next_time, sleep_until, skipped>>
          ELSE IF IsSome(last) /\ Unwrap(last) >= Unwrap(upcoming)
               THEN /\ skipped' = TRUE
                    /\ pc' = "s_now"
                    /\ UNCHANGED <<last, next_time, sleep_until>>
               ELSE /\ last' = upcoming
                    /\ next_time' = Unwrap(upcoming)
                    /\ sleep_until' = clock + SleepTicks(Unwrap(upcoming) - loop_now)
                    /\ pc' = "s_sleep"
                    /\ UNCHANGED skipped
    /\ UNCHANGED <<cron_every, loop_now, fired, invoked_at, outcomes, returned_at, uploaded,
                   sched_ret, retVars,
                   cycVars_but_pc, dockVars, envVars, resVars>>

\* let upcoming = schedule.upcoming(Local).next(); the guard on `last`;
\* last = Some(next_time); the sleep is started
ComputeUpcoming ==
    /\ pc = "s_upcoming"
    /\ LET upcoming == Upcoming(clock)
       IN IF ~IsSome(upcoming)
          THEN pc' = "s_now" /\ UNCHANGED <<last, next_time, sleep_until, skipped>>
          ELSE IF IsSome(last) /\ Unwrap(last) >= Unwrap(upcoming)
               THEN /\ skipped' = TRUE
                    /\ pc' = "s_now"
                    /\ UNCHANGED <<last, next_time, sleep_until>>
               ELSE /\ last' = upcoming
                    /\ next_time' = Unwrap(upcoming)
                    /\ sleep_until' = clock + SleepTicks(Unwrap(upcoming) - loop_now)
                    /\ pc' = "s_sleep"
                    /\ UNCHANGED skipped
    /\ UNCHANGED <<cron_every, loop_now, fired, invoked_at, outcomes, returned_at, uploaded,
                   sched_ret, retVars,
                   cycVars_but_pc, dockVars, envVars, resVars>>

\* sleep(..).await  ends, not before its duration has passed
WakeUp ==
    /\ pc = "s_sleep"
    /\ clock >= sleep_until
    /\ pc' = "s_run"
    /\ UNCHANGED <<schVars, retVars, cycVars_but_pc, dockVars, envVars, resVars>>

\* run_backup(server_config, retention_config, temp_path) is invoked
InvokeBackup ==
    /\ pc = "s_run"
    /\ Len(fired) < MaxFired
    /\ fired' = Append(fired, next_time)
    /\ invoked_at' = Append(invoked_at, clock)
    /\ pc' = "s_backup"
    /\ UNCHANGED <<cron_every, last, loop_now, next_time, sleep_until, skipped, outcomes,
                   returned_at,
                   uploaded, sched_ret, retVars, cycVars_but_pc, dockVars, envVars, resVars>>

\* what run_backup can return
CycleResults == {"Ok", "Err_io", "Err_list", "Err_delete", "Err_stop", "Err_start",
                 "Err_snapshot", "Err_combine", "Err_upload"}
\* what it can return from where it stands: before the timestamp is read,
\* between the timestamp and the upload, after the upload
StageResults ==
    CASE pc = "s_backup" -> {"Err_io", "Err_list", "Err_delete", "Err_stop", "Err_start",
                             "Err_snapshot"}
      [] pc = "s_named" -> {"Err_combine", "Err_upload"}
      [] pc = "s_uploaded" -> {"Ok", "Err_io", "Err_list", "Err_delete"}
      [] OTHER -> {}

\* the invoked cycle reads Local::now() and names its artifact by the second
CycleTakesTimestamp ==
    /\ pc = "s_backup"
    /\ combined_name' = Some(DatedName(clock \div TicksPerSec, 0))
    /\ pc' = "s_named"
    /\ UNCHANGED <<schVars, retVars, impl, mode, cycle_ret, volume_names, vi, result,
                   dockVars, envVars, resVars>>

\* the invoked cycle uploads the artifact: an object of that name is replaced
CycleUploads ==
    /\ pc = "s_named"
    /\ uploaded' = Append(uploaded, Unwrap(combined_name))
    /\ remote' = ServerAfterUpload(Unwrap(combined_name))
    /\ pc' = "s_uploaded"
    /\ UNCHANGED <<cron_every, last, loop_now, next_time, sleep_until, fired, invoked_at,
                   skipped, outcomes, returned_at, sched_ret, retVars, cycVars_but_pc, dockVars,
                   temp_exists, temp, clock, tz, resVars>>

\* a variant that serves the next trigger after a failed cycle
BackupReturns_Retries ==
    /\ \E r \in StageResults :
         /\ outcomes' = Append(outcomes, r)
         /\ returned_at' = Append(returned_at, clock)
         /\ pc' = "s_now"
         /\ UNCHANGED sched_ret
    /\ UNCHANGED <<cron_every, last, loop_now, next_time, sleep_until, fired, invoked_at,
                   skipped, uploaded, retVars, cycVars_but_pc, dockVars, envVars, resVars>>

\* run_backup(..)?  returns: Ok goes round the loop, Err is returned
BackupReturns ==
    /\ \E r \in StageResults :
         /\ outcomes' = Append(outcomes, r)
         /\ returned_at' = Append(returned_at, clock)
         /\ IF r = "Ok"
            THEN pc' = "s_now" /\ UNCHANGED sched_ret
            ELSE pc' = "s_returned" /\ sched_ret' = r
    /\ UNCHANGED <<cron_every, last, loop_now, next_time, sleep_until, fired, invoked_at,
                   skipped, uploaded, retVars, cycVars_but_pc, dockVars, envVars, resVars>>

Schedules == {0, 1, 2}

InitSched ==
    /\ cron_every \in Schedules
    /\ last = None /\ loop_now = 0 /\ next_time = 0 /\ sleep_until = 0
    /\ fired = <<>> /\ invoked_at = <<>> /\ skipped = FALSE /\ sched_ret = "none"
    /\ outcomes = <<>> /\ returned_at = <<>> /\ uploaded = <<>>
    /\ impl = "current" /\ mode = "sched" /\ pc = "s_now" /\ cycle_ret = "none"
    /\ volume_names = <<>> /\ vi = 0 /\ result = "none" /\ combined_name = None
    /\ running = Containers /\ sc_caller = "none" /\ ps = <<>> /\ container_ids = <<>>
    /\ to_start = <<>> /\ exit_fails = 0 /\ calls = <<>>
    /\ remote = {} /\ temp_exists = TRUE /\ temp = {} /\ tz = 0
    /\ clock \in 0 .. (TicksPerSec - 1)
    /\ backups = <<>> /\ retention = DefaultPolicy /\ utc_now = 0 /\ to_delete = <<>>
    /\ to_delete_again = <<>>
    /\ delete_calls = <<>>
    /\ fpc = "input"
    /\ IdleRestore

NextSched ==
    \/ SchedTick
    \/ ReadNow
    \/ ComputeUpcoming
    \/ WakeUp
    \/ InvokeBackup
    \/ CycleTakesTimestamp
    \/ CycleUploads
    \/ BackupReturns

SpecSched == InitSched /\ [][NextSched]_vars

-----------------------------------------------------------------------------
(* Properties of the scheduler.                                            *)

\* C10: the trigger instants for which a cycle is invoked are strictly
\* increasing: no instant is fired twice, also when the loop comes round
\* before the instant has passed and the schedule returns it again.
C10_NoDoubleFire ==
    \A i, j \in DOMAIN fired : i < j => fired[i] < fired[j]

\* two cycles were invoked and, between them, the guard skipped an iteration
\* that had computed the instant already fired
C10_Witness ==
    /\ Len(fired) >= 2
    /\ skipped
    /\ invoked_at[1] < fired[1]

\* C11: a cycle is invoked for a trigger instant only at or after that
\* instant.
C11_NotBeforeInstant ==
    \A i \in DOMAIN fired : invoked_at[i] >= fired[i]

\* C12: a cycle that failed is the last one invoked, and the scheduler has
\* returned its error.
C12_FailureStopsScheduler ==
    \A i \in DOMAIN outcomes :
        outcomes[i] # "Ok"
            => /\ i = Len(fired)
               /\ pc = "s_returned"
               /\ sched_ret = outcomes[i]

\* the second cycle failed and the scheduler returned
C12_Witness ==
    /\ Len(outcomes) = 2
    /\ outcomes[2] = "Err_upload"
    /\ sched_ret = "Err_upload"

\* C13: the artifacts uploaded by successive cycles carry increasing
\* timestamps, so no cycle reuses the name of an earlier cycle's artifact.
C13_NamesIncrease ==
    \A i, j \in DOMAIN uploaded : i < j => DateOf(uploaded[i]) < DateOf(uploaded[j])

\* C27: with a schedule that has no future occurrence the scheduler keeps
\* going round its loop: it invokes no cycle and it does not return.
C27_EmptyScheduleStalls ==
    cron_every = 0 =>
        /\ fired = <<>> /\ outcomes = <<>>
        /\ sched_ret = "none"
        /\ pc \in {"s_now", "s_upcoming"}

\* the loop has gone round after time has passed, and is about to ask again
C27_Witness ==
    /\ cron_every = 0
    /\ pc = "s_upcoming"
    /\ loop_now >= 2 * TicksPerSec
    /\ clock = MaxSchedClock

-----------------------------------------------------------------------------
(* Properties of restore: which volumes, and what a failure leaves.        *)

\* the volumes the selector asks for: all of the bundle in discovery order,
\* or the listed ones
Selection == IF volume_selector = None THEN bundle ELSE Unwrap(volume_selector)
\* the volumes whose replacement was entered, in order
ReplaceCalls == SelectSeq(calls, LAMBDA c : c.ctx = "restore" /\ c.op \in {"stop_ok", "stop_err"})
ReplaceOrder == [i \in DOMAIN ReplaceCalls |-> ReplaceCalls[i].vol]

\* C18: restore never changes the data of a volume that is not selected,
\* and a restore that returned Ok has replaced the selected volumes, each
\* once and in the order of the selection (discovery order for "all").
C18_SelectionRestored ==
    /\ \A v \in Volumes : v \notin SeqToSet(Selection) => data[v] = "orig"
    /\ restore_ret = "Ok"
           => /\ ReplaceOrder = Selection
              /\ \A v \in SeqToSet(Selection) : data[v] = "restored"

\* volume a alone was selected from a bundle of a and b, and restored
C18_Witness ==
    /\ restore_ret = "Ok"
    /\ volume_selector = Some(<<"a">>)
    /\ bundle = <<"a", "b">>
    /\ data = [v \in Volumes |-> IF v = "a" THEN "restored" ELSE "orig"]

\* the replacement of volume v was entered: its containers were stopped
ReplaceEntered(v) ==
    \E i \in DOMAIN ReplaceCalls : ReplaceCalls[i].op = "stop_ok" /\ ReplaceCalls[i].vol = v

\* C19: a volume whose mount path is missing keeps its data and its missing
\* mount path; once its replacement has made the mount check, restore has
\* returned the error that names the volume, and not Ok.
C19_MissingMountFails ==
    /\ [](\A v \in Volumes :
            ~mount_exists[v]
                => /\ data[v] = "orig"
                   /\ (ReplaceEntered(v) /\ pc # "r_check_mount")
                          => (pc = "r_returned" /\ restore_ret = "Err_no_volume"))
    /\ [][mount_exists' = mount_exists]_vars

\* volume b was restored, then volume a, whose mount path is missing, failed
C19_Witness ==
    /\ ~mount_exists["a"]
    /\ ReplaceEntered("a")
    /\ restore_ret = "Err_no_volume"
    /\ data["b"] = "restored"

\* C20: the volumes restored before the one in hand hold their restored
\* contents, also after a failure; a restore that returned with a selected
\* volume still in hand returned an error.
C20_NoRollback ==
    (mode = "restore" /\ ri >= 1)
        => /\ \A k \in 1 .. (ri - 1) :
                  k <= Len(restore_names) => data[restore_names[k]] = "restored"
           /\ (pc = "r_returned" /\ ri <= Len(restore_names))
                  => restore_ret \notin {"none", "Ok"}

\* the second selected volume failed after the first was restored
C20_Witness ==
    /\ pc = "r_returned"
    /\ Len(restore_names) = 2
    /\ ri = 2
    /\ restore_ret = "Err_io"
    /\ data[restore_names[1]] = "restored"
    /\ data[restore_names[2]] = "partly_removed"

\* C21: with "latest" the artifact downloaded is the first line of the
\* newest-first listing and a literal selector is taken as given; when the
\* listing gave no name, restore has returned an error with no download, no
\* container stopped, no safety backup and no volume changed.
C21_LatestResolved ==
    /\ (artifact_selector = None /\ IsSome(backup_file_name))
           => (ls_output # <<>> /\ backup_file_name = Some(Head(ls_output)))
    /\ (artifact_selector # None /\ IsSome(backup_file_name))
           => backup_file_name = artifact_selector
    /\ (mode = "restore" /\ artifact_selector = None /\ ls_output = <<>>
            /\ pc # "r_resolve")
           => /\ pc = "r_returned" /\ restore_ret = "Err_latest"
              /\ Bundle \notin temp
              /\ calls = <<>>
              /\ cycle_ret = "none"
              /\ \A v \in Volumes : data[v] = "orig"

\* two artifacts were listed and the first one was downloaded
C21_Witness ==
    /\ artifact_selector = None
    /\ Len(ls_output) = 2
    /\ backup_file_name = Some(ls_output[1])
    /\ Bundle \in temp

-----------------------------------------------------------------------------
(* Properties of stop_containers and start_containers.                     *)

\* C22: the controller's own container is never stopped, and the handle
\* list stop_containers returns is the listing of `docker ps` for the
\* volume without the controller's own container, in order.
C22_NeverStopsItself ==
    /\ MyId \in running
    /\ \A i \in DOMAIN calls :
           calls[i].op = "stop_ok"
               => /\ i > 1 /\ calls[i - 1].op = "ps" /\ calls[i - 1].vol = calls[i].vol
                  /\ calls[i].ids = SelectSeq(calls[i - 1].ids, LAMBDA c : c # MyId)

\* the listing for volume a held the controller between two other
\* containers, and those two were stopped
C22_Witness ==
    \E i \in DOMAIN calls :
        /\ calls[i].op = "stop_ok"
        /\ calls[i].ids = <<"c1", "c2">>
        /\ calls[i - 1].ids = <<"c1", MyId, "c2">>
        /\ running = {MyId}

\* C23: a cycle in which the start of a stopped container failed, by not
\* running or by reporting failure, returns that failure.
C23_ResumeFailureSurfaced ==
    (CycleReturned /\ At("start_failed") # {}) => cycle_ret = "Err_start"

\* the containers the controller has stopped and not started again
Stopped == Containers \ running
\* stop_containers .. start_containers of one turn of the volume loop
VolumeTurn == {"stop_loop", "compress", "start", "start_loop"}

\* C32: while a cycle runs, every stopped container was stopped for the
\* volume of the current turn of the loop, and none is stopped outside a turn
\* (while pruning, combining or uploading, or between two volumes).
C32_OneVolumeAtATime ==
    (mode = "backup" /\ ~CycleReturned) =>
        /\ Stopped \subseteq SeqToSet(container_ids)
        /\ Stopped # {} => pc \in VolumeTurn

\* the snapshot of a volume has failed in this cycle
SnapshotFailed == At("snap_err") # {}
\* the calls recorded after the failed snapshot
AfterSnapshotFailure ==
    LET i == CHOOSE j \in At("snap_err") : TRUE
    IN {calls[j].op : j \in (i + 1) .. Len(calls)}

\* C33: once the snapshot of a volume has failed, the cycle only starts that
\* volume's containers again and returns the error: no container is stopped
\* for a later volume, no artifact is named, combined or uploaded, no prune
\* runs and the server directory stays as it was.
C33_SnapshotFailureEndsCycle ==
    /\ [](SnapshotFailed =>
            /\ pc \in {"start", "start_loop", "propagate", "returned"}
            /\ AfterSnapshotFailure \subseteq {"start", "start_failed"}
            /\ combined_name = None /\ Combined \notin temp
            /\ CycleReturned => cycle_ret \in {"Err_snapshot", "Err_start"})
    /\ [][SnapshotFailed => UNCHANGED <<remote, backups, to_delete, delete_calls, vi>>]_vars

\* the snapshot of the first of two volumes failed, its containers were
\* started again and the cycle has returned the snapshot's error
C33_Witness ==
    /\ mode = "backup" /\ SnapshotFailed
    /\ Len(volume_names) = 2 /\ vi = 1
    /\ "start" \in AfterSnapshotFailure
    /\ CycleReturned /\ cycle_ret = "Err_snapshot"

-----------------------------------------------------------------------------
(* Properties of restore: the temp workspace and the order of the volumes. *)

\* the archives extract_volumes_from_backup unpacked under <temp>/volumes
ExtractedArchives == {Extracted(bundle[i]) : i \in DOMAIN bundle}
\* the for loop over the volumes is about to start
RestoreLoopBegins == mode = "restore" /\ pc = "r_decompress" /\ ri = 1

\* C34: when the loop over the volumes begins, after the safety backup has
\* run in the same temp workspace, the workspace and every archive
\* unpacked from the bundle are still there.
C34_ExtractedSurviveSafetyBackup ==
    RestoreLoopBegins => temp_exists /\ ExtractedArchives \subseteq temp

\* restore has issued a docker command for the j-th selected volume
VolumeEntered(j) ==
    \E i \in DOMAIN calls : calls[i].ctx = "restore" /\ calls[i].vol = restore_names[j]
\* restore has returned an error from inside its loop, at the ri-th volume
LoopFailed ==
    /\ mode = "restore" /\ RestoreReturned /\ restore_ret # "Ok"
    /\ ri \in DOMAIN restore_names

\* C35: restore takes the selected volumes in the order of the selection
\* and ends at the first that fails: a volume is entered only when every
\* volume before it has been restored, one not entered keeps its data, and
\* after the failure nothing more is done; the temp workspace is not removed
\* while the loop is at a volume.
C35_StopsAtFirstFailure ==
    /\ [](mode = "restore" =>
            \A j \in DOMAIN restore_names :
                IF VolumeEntered(j)
                THEN \A i \in 1 .. (j - 1) : data[restore_names[i]] = "restored"
                ELSE data[restore_names[j]] = "orig")
    /\ [][~LoopFailed]_vars
    /\ [][(mode = "restore" /\ ri' \in DOMAIN restore_names') =>
               temp_exists' = temp_exists]_vars

\* the first of two selected volumes failed after its data was touched: the
\* second was not entered and the temp workspace is still there
C35_Witness ==
    /\ LoopFailed
    /\ Len(restore_names) = 2 /\ ri = 1
    /\ data[restore_names[1]] \in {"partly_removed", "partly_moved"}
    /\ ~VolumeEntered(2)
    /\ temp_exists

-----------------------------------------------------------------------------
(* Properties of the scheduler: one cycle at a time.                       *)

\* a cycle invoked by the scheduler is running
CycleRunning == pc \in {"s_backup", "s_named", "s_uploaded"}
\* the trigger instants of the schedule
IsTrigger(t) == cron_every # 0 /\ t % Period = 0

\* C36: every cycle but the one running has returned; a cycle is invoked
\* after the one before it has returned, and for a trigger instant later
\* than that return, so an instant that passed during a cycle is never
\* served.
C36_CyclesNeverOverlap ==
    /\ Len(returned_at) = Len(outcomes)
    /\ Len(fired) = Len(outcomes) + (IF CycleRunning THEN 1 ELSE 0)
    /\ \A n \in DOMAIN fired :
           n > 1 => /\ invoked_at[n] >= returned_at[n - 1]
                    /\ fired[n] > returned_at[n - 1]

\* a trigger instant passed while the first cycle was running, and the
\* second cycle was invoked for a later one
C36_Witness ==
    /\ Len(fired) >= 2
    /\ \E t \in invoked_at[1] + 1 .. returned_at[1] :
           IsTrigger(t) /\ t > fired[1] /\ fired[2] > t

====
